---- MODULE Spec2Model ----
(***************************************************************************)
(* Wave Function Collapse grid generator                                   *)
(* (WFC/Source/WFC/WaveFunctionCollapseComponent.{h,cpp}).                 *)
(*                                                                         *)
(* The component's properties (GridWidth, GridHeight, TileTypes,           *)
(* CompatibleEdges) are the configuration; Grid is the private array of    *)
(* cells.  GenerateGrid is modelled statement block by statement block:    *)
(* pc is the position inside GenerateGrid / PropagateConstraints.          *)
(* Array indices are the code's 0-based indices; a TArray<int32> is a      *)
(* TLA+ sequence, so element k of the code is element k+1 here.            *)
(***************************************************************************)
EXTENDS Integers, Sequences, FiniteSets, TLC

(* ---------------------------------------------------------------------- *)
(* Bounds of the model                                                     *)
(* ---------------------------------------------------------------------- *)
MaxWidth == 3
MaxHeight == 2
MaxCells == 4
MaxTiles == 2
MaxCalls == 2
MaxRerunCells == 2
MaxUnitCells == 3

(* ---------------------------------------------------------------------- *)
(* Program constants                                                       *)
(* ---------------------------------------------------------------------- *)
Type_A == 0
Type_B == 1
Type_C == 2
Type_D == 3
ETileEdgeType == {Type_A, Type_B, Type_C, Type_D}

INT32_MAX == 2147483647

VARIABLES
    GridWidth,          \* UPROPERTY int32 GridWidth
    GridHeight,         \* UPROPERTY int32 GridHeight
    TileTypes,          \* UPROPERTY TArray<FTileType>
    CompatibleEdges,    \* UPROPERTY TMap<ETileEdgeType, ETileEdgeType>
    Grid,               \* TArray<FCell>, a function on 0 .. Num-1
    pc,                 \* position in BeginPlay / GenerateGrid / PropagateConstraints
    IterationCount,     \* local of GenerateGrid
    CellToCollapse,     \* local of GenerateGrid
    PropagationQueue,   \* local of PropagateConstraints
    CurrentCellIndex,   \* local of PropagateConstraints
    RandomDraws,        \* the values FMath::RandRange returned in this call, in order
    Defects,            \* the warnings logged by the last ValidateEdgeRules call
    Warned,             \* the "reached max iterations" warning was logged in this call
    Failed,             \* the "Invalid edge compatibility rules" error was logged in this call
    Spawned,            \* cells SpawnTileMeshes places a mesh for
    calls,              \* number of GenerateGrid calls started so far
    prev                \* what the previous GenerateGrid call left behind

config == <<GridWidth, GridHeight, TileTypes, CompatibleEdges>>
locals == <<IterationCount, CellToCollapse, PropagationQueue, CurrentCellIndex>>
logs == <<Defects, Warned, Failed, Spawned>>
vars == <<GridWidth, GridHeight, TileTypes, CompatibleEdges, Grid, pc,
          IterationCount, CellToCollapse, PropagationQueue, CurrentCellIndex,
          RandomDraws, Defects, Warned, Failed, Spawned, calls, prev>>

(* ---------------------------------------------------------------------- *)
(* Data                                                                    *)
(* ---------------------------------------------------------------------- *)
Range(s) == {s[k] : k \in 1..Len(s)}

\* FTileType without the mesh (the generator never reads it)
FTileType(n, e, s, w) == [NorthEdge |-> n, EastEdge |-> e, SouthEdge |-> s, WestEdge |-> w]

\* FCell::FCell()
FCell == [PossibleStates |-> <<>>, bIsCollapsed |-> FALSE, FinalState |-> -1]

\* TArray<FCell>::Num()
Num(G) == Cardinality(DOMAIN G)

\* an empty TArray<FCell>
EmptyGrid == [i \in {} |-> FCell]

\* TArray<FTileType>::Num()
NumTiles(T) == Len(T)

\* TileTypes[i], i the code's 0-based index
Tile(T, i) == T[i + 1]

(* ---------------------------------------------------------------------- *)
(* Pure helpers of the component                                           *)
(* ---------------------------------------------------------------------- *)

\* mutant of AreEdgesCompatible: the labels are compared with each other, the
\* table is not consulted
AreEdgesCompatibleSameLabel(Edge1, Edge2) == Edge1 = Edge2

\* AreEdgesCompatible: only the forward mapping of Edge1 is consulted
AreEdgesCompatible(Edge1, Edge2) ==
    IF Edge1 \in DOMAIN CompatibleEdges
    THEN CompatibleEdges[Edge1] = Edge2
    ELSE FALSE

\* The warnings of the per-tile loop of ValidateEdgeRules: one for each edge
\* of each tile whose label is not a key of the table
MissingRuleDefects(T, C) ==
    {<<"NoRule", i, "North">> : i \in {j \in 0..NumTiles(T)-1 : Tile(T, j).NorthEdge \notin DOMAIN C}}
    \cup {<<"NoRule", i, "East">> : i \in {j \in 0..NumTiles(T)-1 : Tile(T, j).EastEdge \notin DOMAIN C}}
    \cup {<<"NoRule", i, "South">> : i \in {j \in 0..NumTiles(T)-1 : Tile(T, j).SouthEdge \notin DOMAIN C}}
    \cup {<<"NoRule", i, "West">> : i \in {j \in 0..NumTiles(T)-1 : Tile(T, j).WestEdge \notin DOMAIN C}}

\* mutant of SymmetryDefects: the reverse entry is looked up but not compared
SymmetryDefectsKeyOnly(C) ==
    {<<"NotSymmetric", Edge1, C[Edge1]>> :
        Edge1 \in {k \in DOMAIN C : ~(C[k] \in DOMAIN C)}}

\* The warnings of the symmetry loop of ValidateEdgeRules: one for each pair
\* Edge1 -> Edge2 of the table for which Edge2 is no key or maps elsewhere
SymmetryDefects(C) ==
    {<<"NotSymmetric", Edge1, C[Edge1]>> :
        Edge1 \in {k \in DOMAIN C : ~(C[k] \in DOMAIN C /\ C[C[k]] = k)}}

\* ValidateEdgeRules: the returned bool and the warnings it logs.  An empty
\* catalog returns at once, before either loop runs.
ValidateEdgeRules(T, C) ==
    IF NumTiles(T) = 0
    THEN [ok |-> FALSE, defects |-> {<<"NoTileTypes">>}]
    ELSE LET d == MissingRuleDefects(T, C) \cup SymmetryDefects(C)
         IN  [ok |-> (d = {}), defects |-> d]

\* IsGridFullyCollapsed
IsGridFullyCollapsed(G) == \A i \in DOMAIN G : G[i].bIsCollapsed

\* IndexToXY
IndexToX(Index) == Index % GridWidth
IndexToY(Index) == Index \div GridWidth

\* XYToIndex
XYToIndex(X, Y) == Y * GridWidth + X

\* mutant of LowestEntropyScan: the negation of bIsCollapsed is missing
RECURSIVE LowestEntropyScanCollapsed(_, _, _, _)
LowestEntropyScanCollapsed(G, i, LowestEntropyIndex, LowestEntropy) ==
    IF i >= Num(G)
    THEN LowestEntropyIndex
    ELSE IF G[i].bIsCollapsed /\ Len(G[i].PossibleStates) > 0
            /\ Len(G[i].PossibleStates) < LowestEntropy
         THEN LowestEntropyScanCollapsed(G, i + 1, i, Len(G[i].PossibleStates))
         ELSE LowestEntropyScanCollapsed(G, i + 1, LowestEntropyIndex, LowestEntropy)

\* mutant of LowestEntropyScan: <= instead of <, the last of equal cells wins
RECURSIVE LowestEntropyScanLast(_, _, _, _)
LowestEntropyScanLast(G, i, LowestEntropyIndex, LowestEntropy) ==
    IF i >= Num(G)
    THEN LowestEntropyIndex
    ELSE IF ~G[i].bIsCollapsed /\ Len(G[i].PossibleStates) > 0
            /\ Len(G[i].PossibleStates) <= LowestEntropy
         THEN LowestEntropyScanLast(G, i + 1, i, Len(G[i].PossibleStates))
         ELSE LowestEntropyScanLast(G, i + 1, LowestEntropyIndex, LowestEntropy)

\* The scan of FindCellWithLowestEntropy from index i on, with the running
\* LowestEntropyIndex and LowestEntropy
RECURSIVE LowestEntropyScan(_, _, _, _)
LowestEntropyScan(G, i, LowestEntropyIndex, LowestEntropy) ==
    IF i >= Num(G)
    THEN LowestEntropyIndex
    ELSE IF ~G[i].bIsCollapsed /\ Len(G[i].PossibleStates) > 0
            /\ Len(G[i].PossibleStates) < LowestEntropy
         THEN LowestEntropyScan(G, i + 1, i, Len(G[i].PossibleStates))
         ELSE LowestEntropyScan(G, i + 1, LowestEntropyIndex, LowestEntropy)

\* mutant of FindCellWithLowestEntropy: the first cell is returned without
\* looking at bIsCollapsed or the candidate count
FindCellWithLowestEntropyFirst(G) == IF Num(G) > 0 THEN 0 ELSE -1

\* FindCellWithLowestEntropy
FindCellWithLowestEntropy(G) == LowestEntropyScan(G, 0, -1, INT32_MAX)

\* mutant of CollapseCellDraws: the bIsCollapsed test is missing
CollapseCellDrawsAgain(G, CellIndex) ==
    /\ ~(CellIndex < 0 \/ CellIndex >= Num(G))
    /\ ~(Len(G[CellIndex].PossibleStates) = 0)

\* CollapseCell draws from FMath::RandRange exactly when it passes both
\* early returns
CollapseCellDraws(G, CellIndex) ==
    /\ ~(CellIndex < 0 \/ CellIndex >= Num(G))
    /\ ~(G[CellIndex].bIsCollapsed \/ Len(G[CellIndex].PossibleStates) = 0)

\* The values FMath::RandRange(0, Num - 1) can return in CollapseCell (0 stands
\* for "no draw" when the call returns early)
RandRange(G, CellIndex) ==
    IF CollapseCellDraws(G, CellIndex)
    THEN 0 .. Len(G[CellIndex].PossibleStates) - 1
    ELSE {0}

\* mutant of CollapseCell: PossibleStates.Empty() is missing
CollapseCellKeepStates(G, CellIndex, RandomIndex) ==
    IF CellIndex < 0 \/ CellIndex >= Num(G)
    THEN G
    ELSE IF G[CellIndex].bIsCollapsed \/ Len(G[CellIndex].PossibleStates) = 0
         THEN G
         ELSE LET ChosenState == G[CellIndex].PossibleStates[RandomIndex + 1]
              IN  [G EXCEPT ![CellIndex] =
                      [PossibleStates |-> Append(G[CellIndex].PossibleStates, ChosenState),
                       FinalState |-> ChosenState,
                       bIsCollapsed |-> TRUE]]

\* mutant of CollapseCell: Cell.bIsCollapsed = true is missing
CollapseCellNoFlag(G, CellIndex, RandomIndex) ==
    IF CellIndex < 0 \/ CellIndex >= Num(G)
    THEN G
    ELSE IF G[CellIndex].bIsCollapsed \/ Len(G[CellIndex].PossibleStates) = 0
         THEN G
         ELSE LET ChosenState == G[CellIndex].PossibleStates[RandomIndex + 1]
              IN  [G EXCEPT ![CellIndex] =
                      [PossibleStates |-> <<ChosenState>>,
                       FinalState |-> ChosenState,
                       bIsCollapsed |-> G[CellIndex].bIsCollapsed]]

\* mutant of CollapseCell: PossibleStates.Add(ChosenState) is missing
CollapseCellNoAdd(G, CellIndex, RandomIndex) ==
    IF CellIndex < 0 \/ CellIndex >= Num(G)
    THEN G
    ELSE IF G[CellIndex].bIsCollapsed \/ Len(G[CellIndex].PossibleStates) = 0
         THEN G
         ELSE LET ChosenState == G[CellIndex].PossibleStates[RandomIndex + 1]
              IN  [G EXCEPT ![CellIndex] =
                      [PossibleStates |-> <<>>,
                       FinalState |-> ChosenState,
                       bIsCollapsed |-> TRUE]]

\* CollapseCell, RandomIndex being the value RandRange returned
CollapseCell(G, CellIndex, RandomIndex) ==
    IF CellIndex < 0 \/ CellIndex >= Num(G)
    THEN G
    ELSE IF G[CellIndex].bIsCollapsed \/ Len(G[CellIndex].PossibleStates) = 0
         THEN G
         ELSE LET ChosenState == G[CellIndex].PossibleStates[RandomIndex + 1]
              IN  [G EXCEPT ![CellIndex] =
                      [PossibleStates |-> <<ChosenState>>,
                       FinalState |-> ChosenState,
                       bIsCollapsed |-> TRUE]]

\* mutant of UpdatedCell: a cell left with one candidate is not collapsed
UpdatedCellNoCollapse(Cell, AllowedStates) ==
    LET NewPossibleStates == SelectSeq(Cell.PossibleStates, LAMBDA State : State \in AllowedStates)
    IN  IF Len(NewPossibleStates) > 0
        THEN [Cell EXCEPT !.PossibleStates = NewPossibleStates]
        ELSE Cell

\* mutant of UpdatedCell: the test NewPossibleStates.Num() > 0 is missing
UpdatedCellAssignEmpty(Cell, AllowedStates) ==
    LET NewPossibleStates == SelectSeq(Cell.PossibleStates, LAMBDA State : State \in AllowedStates)
    IN  IF Len(NewPossibleStates) = 1
        THEN [PossibleStates |-> NewPossibleStates,
              FinalState |-> NewPossibleStates[1],
              bIsCollapsed |-> TRUE]
        ELSE [Cell EXCEPT !.PossibleStates = NewPossibleStates]

\* mutant of UpdatedCell: FinalState is read from the array before the
\* assignment of NewPossibleStates
UpdatedCellOldFirst(Cell, AllowedStates) ==
    LET NewPossibleStates == SelectSeq(Cell.PossibleStates, LAMBDA State : State \in AllowedStates)
    IN  IF Len(NewPossibleStates) > 0
        THEN IF Len(NewPossibleStates) = 1
             THEN [PossibleStates |-> NewPossibleStates,
                   FinalState |-> Cell.PossibleStates[1],
                   bIsCollapsed |-> TRUE]
             ELSE [Cell EXCEPT !.PossibleStates = NewPossibleStates]
        ELSE Cell

\* The cell UpdateCellPossibilities leaves behind
UpdatedCell(Cell, AllowedStates) ==
    LET NewPossibleStates == SelectSeq(Cell.PossibleStates, LAMBDA State : State \in AllowedStates)
    IN  IF Len(NewPossibleStates) > 0
        THEN IF Len(NewPossibleStates) = 1
             THEN [PossibleStates |-> NewPossibleStates,
                   FinalState |-> NewPossibleStates[1],
                   bIsCollapsed |-> TRUE]
             ELSE [Cell EXCEPT !.PossibleStates = NewPossibleStates]
        ELSE Cell

\* mutant of UpdateCellPossibilities: the returned bool compares PreviousCount
\* with NewPossibleStates.Num() instead of Cell.PossibleStates.Num()
UpdateCellPossibilitiesNewCount(G, CellIndex, AllowedStates) ==
    IF CellIndex < 0 \/ CellIndex >= Num(G)
    THEN [grid |-> G, changed |-> FALSE]
    ELSE IF G[CellIndex].bIsCollapsed
         THEN [grid |-> G, changed |-> FALSE]
         ELSE LET PreviousCount == Len(G[CellIndex].PossibleStates)
                  NewCell == UpdatedCell(G[CellIndex], AllowedStates)
                  NewPossibleStates ==
                      SelectSeq(G[CellIndex].PossibleStates, LAMBDA State : State \in AllowedStates)
              IN  [grid |-> [G EXCEPT ![CellIndex] = NewCell],
                   changed |-> (PreviousCount # Len(NewPossibleStates))]

\* mutant of UpdateCellPossibilities: the early return on a collapsed cell
\* returns true
UpdateCellPossibilitiesCollapsedChanged(G, CellIndex, AllowedStates) ==
    IF CellIndex < 0 \/ CellIndex >= Num(G)
    THEN [grid |-> G, changed |-> FALSE]
    ELSE IF G[CellIndex].bIsCollapsed
         THEN [grid |-> G, changed |-> TRUE]
         ELSE LET PreviousCount == Len(G[CellIndex].PossibleStates)
                  NewCell == UpdatedCell(G[CellIndex], AllowedStates)
              IN  [grid |-> [G EXCEPT ![CellIndex] = NewCell],
                   changed |-> (PreviousCount # Len(NewCell.PossibleStates))]

\* mutant of UpdateCellPossibilities: the returned bool also reports a cell
\* that was collapsed without losing a candidate
UpdateCellPossibilitiesCellChanged(G, CellIndex, AllowedStates) ==
    IF CellIndex < 0 \/ CellIndex >= Num(G)
    THEN [grid |-> G, changed |-> FALSE]
    ELSE IF G[CellIndex].bIsCollapsed
         THEN [grid |-> G, changed |-> FALSE]
         ELSE LET NewCell == UpdatedCell(G[CellIndex], AllowedStates)
              IN  [grid |-> [G EXCEPT ![CellIndex] = NewCell],
                   changed |-> (NewCell # G[CellIndex])]

\* UpdateCellPossibilities: the grid it leaves and the bool it returns
UpdateCellPossibilities(G, CellIndex, AllowedStates) ==
    IF CellIndex < 0 \/ CellIndex >= Num(G)
    THEN [grid |-> G, changed |-> FALSE]
    ELSE IF G[CellIndex].bIsCollapsed
         THEN [grid |-> G, changed |-> FALSE]
         ELSE LET PreviousCount == Len(G[CellIndex].PossibleStates)
                  NewCell == UpdatedCell(G[CellIndex], AllowedStates)
              IN  [grid |-> [G EXCEPT ![CellIndex] = NewCell],
                   changed |-> (PreviousCount # Len(NewCell.PossibleStates))]

\* mutant of AddUnique: TArray::Add
AddUniqueAdd(q, x) == Append(q, x)

\* TArray::AddUnique
AddUnique(q, x) == IF x \in Range(q) THEN q ELSE Append(q, x)

\* mutant of AllowedStatesForEast: the candidate's East edge is compared
\* instead of its West edge
AllowedStatesForEastSameSide(CurrentCell) ==
    {i \in 0..NumTiles(TileTypes)-1 :
        \E StateIndex \in Range(CurrentCell.PossibleStates) :
            AreEdgesCompatible(Tile(TileTypes, StateIndex).EastEdge, Tile(TileTypes, i).EastEdge)}

\* AllowedStatesForNorth .. AllowedStatesForWest of PropagateConstraints.  The
\* arrays are built with AddUnique and only Contains() is applied to them, so
\* each is modelled as the set of its elements.
AllowedStatesForNorth(CurrentCell) ==
    {i \in 0..NumTiles(TileTypes)-1 :
        \E StateIndex \in Range(CurrentCell.PossibleStates) :
            AreEdgesCompatible(Tile(TileTypes, StateIndex).NorthEdge, Tile(TileTypes, i).SouthEdge)}

AllowedStatesForEast(CurrentCell) ==
    {i \in 0..NumTiles(TileTypes)-1 :
        \E StateIndex \in Range(CurrentCell.PossibleStates) :
            AreEdgesCompatible(Tile(TileTypes, StateIndex).EastEdge, Tile(TileTypes, i).WestEdge)}

AllowedStatesForSouth(CurrentCell) ==
    {i \in 0..NumTiles(TileTypes)-1 :
        \E StateIndex \in Range(CurrentCell.PossibleStates) :
            AreEdgesCompatible(Tile(TileTypes, StateIndex).SouthEdge, Tile(TileTypes, i).NorthEdge)}

AllowedStatesForWest(CurrentCell) ==
    {i \in 0..NumTiles(TileTypes)-1 :
        \E StateIndex \in Range(CurrentCell.PossibleStates) :
            AreEdgesCompatible(Tile(TileTypes, StateIndex).WestEdge, Tile(TileTypes, i).EastEdge)}

\* mutant of InitializedGrid: Grid.Empty() and Cell.PossibleStates.Empty() are
\* missing, so the tile indices are added after what the old cell held
InitializedGridKeepOld(G) ==
    [i \in 0 .. GridWidth * GridHeight - 1 |->
        IF i \in DOMAIN G
        THEN [G[i] EXCEPT !.bIsCollapsed = FALSE,
                          !.PossibleStates = @ \o [k \in 1..NumTiles(TileTypes) |-> k - 1]]
        ELSE [FCell EXCEPT !.bIsCollapsed = FALSE,
                           !.PossibleStates = [k \in 1..NumTiles(TileTypes) |-> k - 1]]]

\* The grid GenerateGrid builds before its main loop.  Grid.Empty() discards
\* the old array G; SetNum default-constructs every cell, the loop then fills it.
InitializedGrid(G) ==
    [i \in 0 .. GridWidth * GridHeight - 1 |->
        [FCell EXCEPT !.bIsCollapsed = FALSE,
                      !.PossibleStates = [k \in 1..NumTiles(TileTypes) |-> k - 1]]]

\* The cells SpawnTileMeshes reaches the mesh lookup for
SpawnTileMeshes(G) ==
    {i \in DOMAIN G : G[i].bIsCollapsed /\ G[i].FinalState >= 0
                        /\ G[i].FinalState < NumTiles(TileTypes)}

(* ---------------------------------------------------------------------- *)
(* Configurations the properties are set to                                *)
(* ---------------------------------------------------------------------- *)

\* The tiles catalogs are built from: uniform tiles, tiles whose East/West
\* edge differs from the rest, and a tile using the two remaining labels
TilePalette ==
    {FTileType(Type_A, Type_A, Type_A, Type_A),
     FTileType(Type_B, Type_B, Type_B, Type_B),
     FTileType(Type_A, Type_B, Type_A, Type_A),
     FTileType(Type_A, Type_A, Type_A, Type_B),
     FTileType(Type_C, Type_D, Type_C, Type_D)}

\* TileTypes: every array of at most MaxTiles palette tiles
Catalogs == UNION {[1..n -> TilePalette] : n \in 0..MaxTiles}

\* CompatibleEdges: every map from some edge labels to edge labels
Tables == UNION {[K -> ETileEdgeType] : K \in SUBSET ETileEdgeType}

\* The table the constructor installs
DefaultCompatibleEdges == [e \in ETileEdgeType |-> e]

\* The tables generation is run with: the constructor's, one pairing A with B
\* and C with D, one without rules for C and D, and one that is not symmetric
GenerationTables ==
    {DefaultCompatibleEdges,
     (Type_A :> Type_B) @@ (Type_B :> Type_A) @@ (Type_C :> Type_D) @@ (Type_D :> Type_C),
     (Type_A :> Type_A) @@ (Type_B :> Type_B),
     (Type_A :> Type_B) @@ (Type_B :> Type_B) @@ (Type_C :> Type_C) @@ (Type_D :> Type_D)}

\* The tables the property is rewritten to between two calls: the one without
\* rules for C and D and the one that is not symmetric
RewrittenTables ==
    {(Type_A :> Type_A) @@ (Type_B :> Type_B),
     (Type_A :> Type_B) @@ (Type_B :> Type_B) @@ (Type_C :> Type_C) @@ (Type_D :> Type_D)}

\* The grid sizes: positive width and height, at most MaxCells cells
GridSizes ==
    {wh \in (1..MaxWidth) \X (1..MaxHeight) : wh[1] * wh[2] <= MaxCells}

NoCall == [config |-> <<>>, Grid |-> EmptyGrid, IterationCount |-> 0,
           RandomDraws |-> <<>>, ok |-> FALSE]

(* ---------------------------------------------------------------------- *)
(* Initial state: the component after construction and property setup      *)
(* ---------------------------------------------------------------------- *)
Constructed ==
    /\ Grid = EmptyGrid
    /\ pc = "BeginPlay"
    /\ IterationCount = 0
    /\ CellToCollapse = -1
    /\ PropagationQueue = <<>>
    /\ CurrentCellIndex = -1
    /\ RandomDraws = <<>>
    /\ Defects = {}
    /\ Warned = FALSE
    /\ Failed = FALSE
    /\ Spawned = {}
    /\ calls = 0
    /\ prev = NoCall

Init ==
    /\ \E wh \in GridSizes : GridWidth = wh[1] /\ GridHeight = wh[2]
    /\ TileTypes \in Catalogs
    /\ CompatibleEdges \in GenerationTables
    /\ Constructed

\* Every table, on the smallest grid: the configurations ValidateEdgeRules is
\* examined on
InitValidate ==
    /\ GridWidth = 1
    /\ GridHeight = 1
    /\ TileTypes \in Catalogs
    /\ CompatibleEdges \in Tables
    /\ Constructed

(* ---------------------------------------------------------------------- *)
(* BeginPlay and GenerateGrid                                              *)
(* ---------------------------------------------------------------------- *)

\* BeginPlay: ValidateEdgeRules(), result discarded, then GenerateGrid()
BeginPlay ==
    /\ pc = "BeginPlay"
    /\ Defects' = ValidateEdgeRules(TileTypes, CompatibleEdges).defects
    /\ pc' = "GenerateGrid"
    /\ UNCHANGED <<config, Grid, locals, RandomDraws, Warned, Failed, Spawned, calls, prev>>

\* mutant of GenerateGrid: the grid is emptied and sized before validation
GenerateGridInitFirst ==
    /\ pc = "GenerateGrid"
    /\ calls' = calls + 1
    /\ Defects' = ValidateEdgeRules(TileTypes, CompatibleEdges).defects
    /\ RandomDraws' = <<>>
    /\ Warned' = FALSE
    /\ Spawned' = {}
    /\ Grid' = InitializedGrid(Grid)
    /\ IF ~ValidateEdgeRules(TileTypes, CompatibleEdges).ok
       THEN /\ Failed' = TRUE
            /\ pc' = "Returned"
            /\ UNCHANGED locals
       ELSE /\ Failed' = FALSE
            /\ IterationCount' = 0
            /\ pc' = "MainLoop"
            /\ UNCHANGED <<CellToCollapse, PropagationQueue, CurrentCellIndex>>
    /\ UNCHANGED <<config, prev>>

\* GenerateGrid up to its main loop: validate, and either return or
\* initialize the grid and the loop's locals
GenerateGrid ==
    /\ pc = "GenerateGrid"
    /\ calls' = calls + 1
    /\ Defects' = ValidateEdgeRules(TileTypes, CompatibleEdges).defects
    /\ RandomDraws' = <<>>
    /\ Warned' = FALSE
    /\ Spawned' = {}
    /\ IF ~ValidateEdgeRules(TileTypes, CompatibleEdges).ok
       THEN /\ Failed' = TRUE
            /\ pc' = "Returned"
            /\ UNCHANGED <<Grid, locals>>
       ELSE /\ Failed' = FALSE
            /\ Grid' = InitializedGrid(Grid)
            /\ IterationCount' = 0
            /\ pc' = "MainLoop"
            /\ UNCHANGED <<CellToCollapse, PropagationQueue, CurrentCellIndex>>
    /\ UNCHANGED <<config, prev>>

\* MaxIterations of GenerateGrid
MaxIterations == GridWidth * GridHeight * 10

\* The head of the main loop: the while test, FindCellWithLowestEntropy and
\* the break
MainLoop ==
    /\ pc = "MainLoop"
    /\ IF ~IsGridFullyCollapsed(Grid) /\ IterationCount < MaxIterations
       THEN /\ CellToCollapse' = FindCellWithLowestEntropy(Grid)
            /\ pc' = IF FindCellWithLowestEntropy(Grid) = -1 THEN "AfterLoop" ELSE "CollapseCell"
       ELSE /\ pc' = "AfterLoop"
            /\ UNCHANGED CellToCollapse
    /\ UNCHANGED <<config, Grid, IterationCount, PropagationQueue, CurrentCellIndex,
                   RandomDraws, logs, calls, prev>>

\* CollapseCell(CellToCollapse)
CollapseCellStep ==
    /\ pc = "CollapseCell"
    /\ \E RandomIndex \in RandRange(Grid, CellToCollapse) :
          /\ Grid' = CollapseCell(Grid, CellToCollapse, RandomIndex)
          /\ RandomDraws' = IF CollapseCellDraws(Grid, CellToCollapse)
                            THEN Append(RandomDraws, RandomIndex)
                            ELSE RandomDraws
    /\ pc' = "PropagateConstraints"
    /\ UNCHANGED <<config, locals, logs, calls, prev>>

\* PropagateConstraints(CellToCollapse) up to its loop
PropagateConstraints ==
    /\ pc = "PropagateConstraints"
    /\ IF CellToCollapse < 0 \/ CellToCollapse >= Num(Grid)
       THEN /\ IterationCount' = IterationCount + 1
            /\ pc' = "MainLoop"
            /\ UNCHANGED PropagationQueue
       ELSE /\ PropagationQueue' = <<CellToCollapse>>
            /\ pc' = "QueueLoop"
            /\ UNCHANGED IterationCount
    /\ UNCHANGED <<config, Grid, CellToCollapse, CurrentCellIndex, RandomDraws, logs, calls, prev>>

\* The head of the queue loop: pop the first index, or return to GenerateGrid,
\* which increments IterationCount
QueueLoop ==
    /\ pc = "QueueLoop"
    /\ IF Len(PropagationQueue) > 0
       THEN /\ CurrentCellIndex' = PropagationQueue[1]
            /\ PropagationQueue' = Tail(PropagationQueue)
            /\ pc' = "North"
            /\ UNCHANGED IterationCount
       ELSE /\ IterationCount' = IterationCount + 1
            /\ pc' = "MainLoop"
            /\ UNCHANGED <<PropagationQueue, CurrentCellIndex>>
    /\ UNCHANGED <<config, Grid, CellToCollapse, RandomDraws, logs, calls, prev>>

\* One neighbour block of the queue loop: UpdateCellPossibilities on the
\* neighbour and AddUnique if it returned true
ProcessNeighbor(InBounds, NeighborIndex, AllowedStates, next) ==
    /\ IF InBounds
       THEN LET r == UpdateCellPossibilities(Grid, NeighborIndex, AllowedStates)
            IN  /\ Grid' = r.grid
                /\ PropagationQueue' = IF r.changed
                                       THEN AddUnique(PropagationQueue, NeighborIndex)
                                       ELSE PropagationQueue
       ELSE UNCHANGED <<Grid, PropagationQueue>>
    /\ pc' = next
    /\ UNCHANGED <<config, IterationCount, CellToCollapse, CurrentCellIndex,
                   RandomDraws, logs, calls, prev>>

ProcessNorth ==
    /\ pc = "North"
    /\ LET X == IndexToX(CurrentCellIndex)
           Y == IndexToY(CurrentCellIndex)
       IN  ProcessNeighbor(Y > 0, XYToIndex(X, Y - 1),
                           AllowedStatesForNorth(Grid[CurrentCellIndex]), "East")

ProcessEast ==
    /\ pc = "East"
    /\ LET X == IndexToX(CurrentCellIndex)
           Y == IndexToY(CurrentCellIndex)
       IN  ProcessNeighbor(X < GridWidth - 1, XYToIndex(X + 1, Y),
                           AllowedStatesForEast(Grid[CurrentCellIndex]), "South")

ProcessSouth ==
    /\ pc = "South"
    /\ LET X == IndexToX(CurrentCellIndex)
           Y == IndexToY(CurrentCellIndex)
       IN  ProcessNeighbor(Y < GridHeight - 1, XYToIndex(X, Y + 1),
                           AllowedStatesForSouth(Grid[CurrentCellIndex]), "West")

ProcessWest ==
    /\ pc = "West"
    /\ LET X == IndexToX(CurrentCellIndex)
           Y == IndexToY(CurrentCellIndex)
       IN  ProcessNeighbor(X > 0, XYToIndex(X - 1, Y),
                           AllowedStatesForWest(Grid[CurrentCellIndex]), "QueueLoop")

\* GenerateGrid after its main loop: the warning, then SpawnTileMeshes
AfterLoop ==
    /\ pc = "AfterLoop"
    /\ Warned' = (IterationCount >= MaxIterations)
    /\ Spawned' = SpawnTileMeshes(Grid)
    /\ pc' = "Returned"
    /\ UNCHANGED <<config, Grid, locals, RandomDraws, Defects, Failed, calls, prev>>

Next ==
    \/ BeginPlay
    \/ GenerateGrid
    \/ MainLoop
    \/ CollapseCellStep
    \/ PropagateConstraints
    \/ QueueLoop
    \/ ProcessNorth
    \/ ProcessEast
    \/ ProcessSouth
    \/ ProcessWest
    \/ AfterLoop

Spec == Init /\ [][Next]_vars

\* GenerateGrid is BlueprintCallable and the properties are BlueprintReadWrite:
\* after a call has returned, the catalog may be emptied or kept, the table
\* replaced or kept, and GenerateGrid called again.  prev keeps what the
\* returned call was run with and what it left.
GenerateGridAgain ==
    /\ pc = "Returned"
    /\ calls < MaxCalls
    /\ prev' = [config |-> config, Grid |-> Grid, IterationCount |-> IterationCount,
                RandomDraws |-> RandomDraws, ok |-> ~Failed]
    /\ TileTypes' \in {TileTypes, <<>>}
    /\ CompatibleEdges' \in {CompatibleEdges} \cup RewrittenTables
    /\ pc' = "GenerateGrid"
    /\ UNCHANGED <<GridWidth, GridHeight, Grid, locals, RandomDraws, logs, calls>>

InitRerun ==
    /\ \E wh \in GridSizes : GridWidth = wh[1] /\ GridHeight = wh[2]
    /\ GridWidth * GridHeight <= MaxRerunCells
    /\ TileTypes \in Catalogs
    /\ CompatibleEdges \in GenerationTables
    /\ Constructed

NextRerun == Next \/ GenerateGridAgain

SpecRerun == InitRerun /\ [][NextRerun]_vars

SpecValidate == InitValidate /\ [][Next]_vars

\* A catalog of three tiles on which one propagation narrows a cell twice:
\* tiles 0 and 1 share their West label, tiles 0 and 2 their North label
WorklistCatalog ==
    << FTileType(Type_A, Type_A, Type_A, Type_A),
       FTileType(Type_B, Type_A, Type_A, Type_A),
       FTileType(Type_A, Type_A, Type_A, Type_B) >>

\* Runs on WorklistCatalog with the constructor's table
InitWorklist ==
    /\ \E wh \in GridSizes : GridWidth = wh[1] /\ GridHeight = wh[2]
    /\ TileTypes = WorklistCatalog
    /\ CompatibleEdges = DefaultCompatibleEdges
    /\ Constructed

SpecWorklist == InitWorklist /\ [][Next]_vars

\* GenerateGrid runs synchronously to completion: a step that can be taken is
\* taken
FairSpec == Spec /\ WF_vars(Next)

(* ---------------------------------------------------------------------- *)
(* CollapseCell and FindCellWithLowestEntropy called on their own          *)
(* ---------------------------------------------------------------------- *)

\* The strictly increasing arrays over 0 .. n-1 (what filtering the initial
\* candidate array can leave)
RECURSIVE IncreasingSeqs(_)
IncreasingSeqs(n) ==
    IF n = 0
    THEN {<<>>}
    ELSE IncreasingSeqs(n - 1) \cup {Append(q, n - 1) : q \in IncreasingSeqs(n - 1)}

\* The cells a grid can hold: the default-constructed cell (no candidates),
\* an uncollapsed cell with some candidates, a collapsed cell
Cells ==
    {[FCell EXCEPT !.PossibleStates = q] : q \in IncreasingSeqs(MaxTiles)}
    \cup {[PossibleStates |-> <<t>>, bIsCollapsed |-> TRUE, FinalState |-> t] : t \in 0..MaxTiles-1}

\* The uniform catalog of MaxTiles tiles
UniformCatalog == [k \in 1..MaxTiles |-> FTileType(Type_A, Type_A, Type_A, Type_A)]

InitUnit ==
    /\ \E n \in 0..MaxUnitCells :
          /\ Grid \in [0..n-1 -> Cells]
          /\ GridWidth = n
    /\ GridHeight = 1
    /\ TileTypes = UniformCatalog
    /\ CompatibleEdges = DefaultCompatibleEdges
    /\ pc = "Unit"
    /\ IterationCount = 0
    /\ CellToCollapse = -1
    /\ PropagationQueue = <<>>
    /\ CurrentCellIndex = -1
    /\ RandomDraws = <<>>
    /\ Defects = {}
    /\ Warned = FALSE
    /\ Failed = FALSE
    /\ Spawned = {}
    /\ calls = 0
    /\ prev = NoCall

UnitPositions == {"Unit", "UnitCollapseCell", "UnitFindCell"}

\* CollapseCell(CellIndex) for any index, in range or not; CellToCollapse
\* keeps the argument
UnitCollapseCell ==
    /\ pc \in UnitPositions
    /\ \E CellIndex \in -1 .. Num(Grid) :
          /\ CellToCollapse' = CellIndex
          /\ \E RandomIndex \in RandRange(Grid, CellIndex) :
                /\ Grid' = CollapseCell(Grid, CellIndex, RandomIndex)
                /\ RandomDraws' = IF CollapseCellDraws(Grid, CellIndex)
                                  THEN Append(RandomDraws, RandomIndex)
                                  ELSE RandomDraws
    /\ pc' = "UnitCollapseCell"
    /\ UNCHANGED <<config, IterationCount, PropagationQueue, CurrentCellIndex, logs, calls, prev>>

\* FindCellWithLowestEntropy(); CellToCollapse keeps the result
UnitFindCell ==
    /\ pc \in UnitPositions
    /\ CellToCollapse' = FindCellWithLowestEntropy(Grid)
    /\ pc' = "UnitFindCell"
    /\ UNCHANGED <<config, Grid, IterationCount, PropagationQueue, CurrentCellIndex,
                   RandomDraws, logs, calls, prev>>

NextUnit == UnitCollapseCell \/ UnitFindCell

SpecUnit == InitUnit /\ [][NextUnit]_vars

(* ---------------------------------------------------------------------- *)
(* PropagateConstraints called on its own                                  *)
(* ---------------------------------------------------------------------- *)

\* The catalog of the first MaxTiles tiles of: all A, all B, East edge B,
\* West edge B, C and D alternating
PropagationCatalog ==
    SubSeq(<<FTileType(Type_A, Type_A, Type_A, Type_A),
             FTileType(Type_B, Type_B, Type_B, Type_B),
             FTileType(Type_A, Type_B, Type_A, Type_A),
             FTileType(Type_A, Type_A, Type_A, Type_B),
             FTileType(Type_C, Type_D, Type_C, Type_D)>>, 1, MaxTiles)


\* Any grid of at most MaxUnitCells cells, each default-constructed, narrowed
\* or collapsed, under the constructor's table
InitPropagate ==
    /\ \E wh \in GridSizes :
          /\ GridWidth = wh[1]
          /\ GridHeight = wh[2]
          /\ wh[1] * wh[2] <= MaxUnitCells
          /\ Grid \in [0 .. wh[1] * wh[2] - 1 -> Cells]
    /\ TileTypes = PropagationCatalog
    /\ CompatibleEdges = DefaultCompatibleEdges
    /\ pc = "Unit"
    /\ IterationCount = 0
    /\ CellToCollapse = -1
    /\ PropagationQueue = <<>>
    /\ CurrentCellIndex = -1
    /\ RandomDraws = <<>>
    /\ Defects = {}
    /\ Warned = FALSE
    /\ Failed = FALSE
    /\ Spawned = {}
    /\ calls = 0
    /\ prev = NoCall

\* The call PropagateConstraints(CellIndex) for any index, in range or not;
\* CellToCollapse keeps the argument
UnitPropagateConstraints ==
    /\ pc = "Unit"
    /\ \E CellIndex \in -1 .. Num(Grid) : CellToCollapse' = CellIndex
    /\ pc' = "PropagateConstraints"
    /\ UNCHANGED <<config, Grid, IterationCount, PropagationQueue, CurrentCellIndex,
                   RandomDraws, logs, calls, prev>>

NextPropagate ==
    \/ UnitPropagateConstraints
    \/ PropagateConstraints
    \/ QueueLoop
    \/ ProcessNorth
    \/ ProcessEast
    \/ ProcessSouth
    \/ ProcessWest

SpecPropagate == InitPropagate /\ [][NextPropagate]_vars

\* the call runs synchronously: a step that can be taken is taken
FairSpecPropagate == SpecPropagate /\ WF_vars(NextPropagate)

(* ---------------------------------------------------------------------- *)

(* Properties                                                              *)
(* ---------------------------------------------------------------------- *)

\* GenerateGrid has returned from a call that passed validation
Finished == pc = "Returned" /\ calls > 0 /\ ~Failed

\* the facing edges of cell i and its East neighbour are compatible
EastWestCompatible(G, i) ==
    AreEdgesCompatible(Tile(TileTypes, G[i].FinalState).EastEdge,
                       Tile(TileTypes, G[XYToIndex(IndexToX(i) + 1, IndexToY(i))].FinalState).WestEdge)

\* the facing edges of cell i and its South neighbour are compatible
SouthNorthCompatible(G, i) ==
    AreEdgesCompatible(Tile(TileTypes, G[i].FinalState).SouthEdge,
                       Tile(TileTypes, G[XYToIndex(IndexToX(i), IndexToY(i) + 1)].FinalState).NorthEdge)

\* C1: when GenerateGrid finishes on a validated configuration, every pair of
\* horizontally or vertically adjacent collapsed cells holds tiles whose facing
\* edges are compatible per the table.
C1_AdjacentEdgesCompatible ==
    Finished =>
        \A i \in DOMAIN Grid :
            /\ (IndexToX(i) < GridWidth - 1
                /\ Grid[i].bIsCollapsed
                /\ Grid[XYToIndex(IndexToX(i) + 1, IndexToY(i))].bIsCollapsed)
               => EastWestCompatible(Grid, i)
            /\ (IndexToY(i) < GridHeight - 1
                /\ Grid[i].bIsCollapsed
                /\ Grid[XYToIndex(IndexToX(i), IndexToY(i) + 1)].bIsCollapsed)
               => SouthNorthCompatible(Grid, i)

\* the edge labels the catalog uses
UsedLabels(T) ==
    UNION {{T[k].NorthEdge, T[k].EastEdge, T[k].SouthEdge, T[k].WestEdge} : k \in 1..Len(T)}

\* the catalog is non-empty, every used label is a key, and every pair of the
\* table maps back
ConfigurationValid ==
    /\ Len(TileTypes) > 0
    /\ UsedLabels(TileTypes) \subseteq DOMAIN CompatibleEdges
    /\ \A A \in DOMAIN CompatibleEdges :
          /\ CompatibleEdges[A] \in DOMAIN CompatibleEdges
          /\ CompatibleEdges[CompatibleEdges[A]] = A

\* C2: ValidateEdgeRules succeeds if and only if the catalog is non-empty,
\* every edge label a tile uses is a key of the table, and every pair A -> B of
\* the table has B as a key mapping back to A (Failed is the negation of what
\* the call inside GenerateGrid returned).
C2_ValidateIffConsistent ==
    calls > 0 => (~Failed <=> ConfigurationValid)

\* C2 witness: validation succeeded on a table that pairs two different labels
C2_Witness ==
    /\ calls > 0
    /\ ~Failed
    /\ \E A \in DOMAIN CompatibleEdges : CompatibleEdges[A] # A
    /\ DOMAIN CompatibleEdges # ETileEdgeType

\* every defect of the configuration: the empty catalog, each tile edge
\* without a rule, each pair that does not map back
AllDefects ==
    (IF Len(TileTypes) = 0 THEN {<<"NoTileTypes">>} ELSE {})
    \cup MissingRuleDefects(TileTypes, CompatibleEdges)
    \cup SymmetryDefects(CompatibleEdges)

\* C3: one call of ValidateEdgeRules reports every defect of the
\* configuration: the empty catalog, one missing-rule defect per tile edge
\* whose label is no key, one asymmetry defect per pair that does not map back.
C3_AllDefectsReported ==
    calls > 0 => AllDefects \subseteq Defects

\* C4: when validation fails, GenerateGrid returns at once: the step from its
\* entry leads to the return, the grid is what it was before the call, and no
\* random draw is made.
C4_FailedValidationLeavesGrid ==
    [][(pc = "GenerateGrid" /\ ~ConfigurationValid)
        => (pc' = "Returned" /\ Failed' /\ Grid' = Grid /\ RandomDraws' = <<>>
            /\ IterationCount' = IterationCount)]_vars

\* C4 witness: a call failed validation and returned with the grid a previous
\* call had generated
C4_Witness ==
    /\ pc = "Returned"
    /\ Failed
    /\ calls = 2
    /\ Grid # EmptyGrid
    /\ Grid = prev.Grid
    /\ Len(TileTypes) > 0

\* the positions inside the main loop of GenerateGrid
RunPositions ==
    {"MainLoop", "CollapseCell", "PropagateConstraints", "QueueLoop",
     "North", "East", "South", "West", "AfterLoop"}

\* the positions of the four neighbour blocks of PropagateConstraints
NeighborPositions == {"North", "East", "South", "West"}

\* the number of collapsed cells
CollapsedCount(G) == Cardinality({i \in DOMAIN G : G[i].bIsCollapsed})

\* a step inside the main loop keeps the cells and enlarges no candidate set
CandidatesShrink ==
       pc \in RunPositions =>
        /\ DOMAIN Grid' = DOMAIN Grid
        /\ \A i \in DOMAIN Grid :
              /\ Range(Grid'[i].PossibleStates) \subseteq Range(Grid[i].PossibleStates)
              /\ Len(Grid'[i].PossibleStates) <= Len(Grid[i].PossibleStates)

\* C5: within one generation run no step enlarges a cell's candidate set: the
\* grid keeps its cells, each cell's new candidate set is a subset of the old
\* one and has at most as many entries.
C5_CandidatesNeverGrow == [][CandidatesShrink]_vars

\* C5 witness: in a run, a random collapse has reduced one cell and
\* propagation has reduced another
C5_Witness ==
    /\ pc \in RunPositions
    /\ Len(RandomDraws) = 1
    /\ Len(TileTypes) > 1
    /\ \E i, j \in DOMAIN Grid :
          /\ i # j
          /\ Len(Grid[i].PossibleStates) < Len(TileTypes)
          /\ Len(Grid[j].PossibleStates) < Len(TileTypes)

\* what a step does to the random draws and to a cell narrowed to one candidate
ForcedCollapseStep ==
       /\ pc \in NeighborPositions =>
            /\ RandomDraws' = RandomDraws
            /\ \A i \in DOMAIN Grid :
                  (/\ ~Grid[i].bIsCollapsed
                   /\ Len(Grid'[i].PossibleStates) < Len(Grid[i].PossibleStates)
                   /\ Len(Grid'[i].PossibleStates) = 1)
                  => /\ Grid'[i].bIsCollapsed
                     /\ Grid'[i].FinalState = Grid'[i].PossibleStates[1]
       /\ (pc \in RunPositions /\ RandomDraws' # RandomDraws) => pc = "CollapseCell"
       /\ pc = "CollapseCell" => Len(RandomDraws') = Len(RandomDraws) + 1
       /\ pc' = "MainLoop" => Len(RandomDraws') = IterationCount'

\* C6: when a neighbour block narrows an uncollapsed cell to exactly one
\* candidate, the same step sets its collapsed flag and its FinalState to that
\* candidate and draws no random number; random numbers are drawn only by the
\* CollapseCell step, one per main-loop iteration.
C6_ForcedCollapseWithoutDraw == [][ForcedCollapseStep]_vars

\* C6 witness: a neighbour block has just narrowed a cell to one candidate and
\* queued it, collapsed, while only one random number has been drawn
C6_Witness ==
    /\ pc \in {"East", "South", "West", "QueueLoop"}
    /\ Len(TileTypes) > 1
    /\ Len(RandomDraws) = 1
    /\ Len(PropagationQueue) > 0
    /\ Grid[PropagationQueue[Len(PropagationQueue)]].bIsCollapsed
    /\ CollapsedCount(Grid) = 2

\* a CollapseCell call on a collapsed or candidate-free cell changes nothing
CollapseNoOpStep ==
       (/\ pc' = "UnitCollapseCell"
        /\ CellToCollapse' \in DOMAIN Grid
        /\ (Grid[CellToCollapse'].bIsCollapsed \/ Len(Grid[CellToCollapse'].PossibleStates) = 0))
        => (Grid' = Grid /\ RandomDraws' = RandomDraws)

\* C7: CollapseCell on a cell that is already collapsed or has no candidates
\* changes nothing in the grid and draws no random number.
C7_CollapseNoOp == [][CollapseNoOpStep]_vars

\* C7 witness: CollapseCell was called on a cell without candidates, in a grid
\* that also holds a collapsed cell and an uncollapsed one with candidates
C7_Witness ==
    /\ pc = "UnitCollapseCell"
    /\ CellToCollapse \in DOMAIN Grid
    /\ Len(Grid[CellToCollapse].PossibleStates) = 0
    /\ ~Grid[CellToCollapse].bIsCollapsed
    /\ \E j \in DOMAIN Grid : Grid[j].bIsCollapsed
    /\ RandomDraws = <<>>

\* a cell FindCellWithLowestEntropy may return
Eligible(G, i) == ~G[i].bIsCollapsed /\ Len(G[i].PossibleStates) > 0

\* what a FindCellWithLowestEntropy call returns and leaves
FindCellStep ==
       pc' = "UnitFindCell" =>
        /\ Grid' = Grid
        /\ (CellToCollapse' = -1) <=> ~(\E i \in DOMAIN Grid : Eligible(Grid, i))
        /\ CellToCollapse' # -1 =>
              /\ CellToCollapse' \in DOMAIN Grid
              /\ Eligible(Grid, CellToCollapse')
              /\ \A j \in DOMAIN Grid :
                    Eligible(Grid, j) =>
                        /\ Len(Grid[j].PossibleStates) >= Len(Grid[CellToCollapse'].PossibleStates)
                        /\ (j < CellToCollapse' =>
                              Len(Grid[j].PossibleStates) > Len(Grid[CellToCollapse'].PossibleStates))

\* C8: FindCellWithLowestEntropy returns the lowest index of an uncollapsed
\* cell with at least one candidate that no other such cell undercuts, returns
\* -1 exactly when there is no such cell, and leaves the grid as it was.
C8_LowestEntropyFirst == [][FindCellStep]_vars

\* C8 witness: the result is a cell that ties with a later cell and follows a
\* cell with more candidates
C8_Witness ==
    /\ pc = "UnitFindCell"
    /\ CellToCollapse > 0
    /\ \E j \in DOMAIN Grid :
          /\ j > CellToCollapse
          /\ Eligible(Grid, j)
          /\ Len(Grid[j].PossibleStates) = Len(Grid[CellToCollapse].PossibleStates)
    /\ Eligible(Grid, 0)

\* C9: every run that passes validation terminates; when it has, every cell is
\* collapsed or the iteration counter has reached width*height*10; the counter
\* never exceeds width*height*10; the max-iterations warning is logged only
\* with a grid that is not fully collapsed.
C9_Terminates ==
    /\ [](IterationCount <= MaxIterations)
    /\ [](Finished => (IsGridFullyCollapsed(Grid) \/ IterationCount = MaxIterations))
    /\ [](Warned => ~IsGridFullyCollapsed(Grid))
    /\ (ConfigurationValid => <>(pc = "Returned"))

\* C9 witness: a validated run has returned with every cell collapsed after
\* more than one iteration, some cells having been collapsed by propagation
C9_Witness ==
    /\ Finished
    /\ IsGridFullyCollapsed(Grid)
    /\ IterationCount > 1
    /\ IterationCount < Num(Grid)
    /\ ~Warned

\* C10: two calls of GenerateGrid on the same configuration that received the
\* same random draws leave identical grids and the same iteration count.
C10_SameDrawsSameGrid ==
    (/\ pc = "Returned"
     /\ calls > 1
     /\ ~Failed
     /\ prev.ok
     /\ prev.config = config
     /\ prev.RandomDraws = RandomDraws)
    => (Grid = prev.Grid /\ IterationCount = prev.IterationCount)

\* C10 witness: the second of two calls on one configuration has returned
\* after the same draws as the first, where another draw was possible
C10_Witness ==
    /\ pc = "Returned"
    /\ calls = 2
    /\ ~Failed
    /\ prev.ok
    /\ prev.config = config
    /\ prev.RandomDraws = RandomDraws
    /\ Len(RandomDraws) > 0
    /\ Len(TileTypes) > 1
    /\ Num(Grid) > 1

\* Scenario A: the configuration passes validation and its catalog is one tile
\* whose four edges carry one label, which the table maps to itself
ScenarioA ==
    /\ ConfigurationValid
    /\ Len(TileTypes) = 1
    /\ \E L \in DOMAIN CompatibleEdges :
          /\ CompatibleEdges[L] = L
          /\ TileTypes[1] = FTileType(L, L, L, L)

\* C11: in scenario A, on every grid size, the run ends with every cell
\* collapsed to tile 0, and the iteration cap is never reached (no warning).
C11_ScenarioAllCollapsed ==
    /\ [](ScenarioA => (IterationCount < MaxIterations /\ ~Warned))
    /\ []((ScenarioA /\ Finished) =>
            \A i \in 0 .. GridWidth * GridHeight - 1 :
                /\ i \in DOMAIN Grid
                /\ Grid[i].bIsCollapsed
                /\ Grid[i].FinalState = 0)
    /\ (ScenarioA => <>Finished)

\* C11 witness: a scenario A run on a 2x2 grid has returned fully collapsed
C11_Witness ==
    /\ ScenarioA
    /\ Finished
    /\ GridWidth = 2
    /\ GridHeight = 2
    /\ \A i \in DOMAIN Grid : Grid[i].bIsCollapsed /\ Grid[i].FinalState = 0
    /\ Num(Grid) = 4

\* the table maps label a to label b
TableMaps(a, b) == a \in DOMAIN CompatibleEdges /\ CompatibleEdges[a] = b

\* the four pairs of facing edges of a tile t and a neighbouring tile u
FacingCompatible(t, u) ==
    /\ TableMaps(Tile(TileTypes, t).NorthEdge, Tile(TileTypes, u).SouthEdge)
    /\ TableMaps(Tile(TileTypes, t).EastEdge, Tile(TileTypes, u).WestEdge)
    /\ TableMaps(Tile(TileTypes, t).SouthEdge, Tile(TileTypes, u).NorthEdge)
    /\ TableMaps(Tile(TileTypes, t).WestEdge, Tile(TileTypes, u).EastEdge)

\* no pair of facing edges of t and u is compatible
FacingIncompatible(t, u) ==
    /\ ~TableMaps(Tile(TileTypes, t).NorthEdge, Tile(TileTypes, u).SouthEdge)
    /\ ~TableMaps(Tile(TileTypes, t).EastEdge, Tile(TileTypes, u).WestEdge)
    /\ ~TableMaps(Tile(TileTypes, t).SouthEdge, Tile(TileTypes, u).NorthEdge)
    /\ ~TableMaps(Tile(TileTypes, t).WestEdge, Tile(TileTypes, u).EastEdge)

\* Scenario B: a validated 2x2 grid with two tiles, each edge of one compatible
\* only with the facing edge of the other
ScenarioB ==
    /\ ConfigurationValid
    /\ GridWidth = 2
    /\ GridHeight = 2
    /\ Len(TileTypes) = 2
    /\ FacingCompatible(0, 1)
    /\ FacingCompatible(1, 0)
    /\ FacingIncompatible(0, 0)
    /\ FacingIncompatible(1, 1)

\* C12: in scenario B every finished run is fully collapsed in a checkerboard:
\* cells 0 and 3 hold one tile, cells 1 and 2 the other.
C12_Checkerboard ==
    (ScenarioB /\ Finished) =>
        /\ IsGridFullyCollapsed(Grid)
        /\ Num(Grid) = 4
        /\ Grid[0].FinalState = Grid[3].FinalState
        /\ Grid[1].FinalState = Grid[2].FinalState
        /\ Grid[0].FinalState # Grid[1].FinalState
        /\ {Grid[0].FinalState, Grid[1].FinalState} = {0, 1}

\* C12 witness: a scenario B run has returned after the first collapse drew
\* the second candidate
C12_Witness ==
    /\ ScenarioB
    /\ Finished
    /\ RandomDraws = <<1>>
    /\ Grid[0].FinalState = 1

\* a neighbour block adds an index to the queue only with that cell's
\* candidate count strictly decreased
EnqueueStep ==
    \A i \in Range(PropagationQueue') \ Range(PropagationQueue) :
        pc \in NeighborPositions =>
            /\ i \in DOMAIN Grid
            /\ Len(Grid'[i].PossibleStates) < Len(Grid[i].PossibleStates)

\* C13: every call of PropagateConstraints, from any grid and any origin
\* index, returns (the queue loop ends with the queue empty), and a cell is
\* queued only when its candidate count has strictly decreased.
C13_PropagateTerminates ==
    /\ [][EnqueueStep]_vars
    /\ [](pc = "MainLoop" => PropagationQueue = <<>>)
    /\ ((pc = "PropagateConstraints") ~> (pc = "MainLoop"))

\* C13 witness: a call has returned after it narrowed and queued a cell that
\* itself was the origin's neighbour, from a grid with a candidate-free cell
C13_Witness ==
    /\ pc = "MainLoop"
    /\ calls = 0
    /\ CurrentCellIndex # -1
    /\ CurrentCellIndex # CellToCollapse
    /\ \E i \in DOMAIN Grid : Len(Grid[i].PossibleStates) = 0


\* a step inside the main loop leaves every collapsed cell as it is, and a
\* neighbour block adds no collapsed cell to the worklist
CollapsedFrozenStep ==
       pc \in RunPositions =>
        /\ \A i \in DOMAIN Grid :
              Grid[i].bIsCollapsed => (i \in DOMAIN Grid' /\ Grid'[i] = Grid[i])
        /\ pc \in NeighborPositions =>
              \A i \in Range(PropagationQueue') \ Range(PropagationQueue) :
                 i \in DOMAIN Grid /\ ~Grid[i].bIsCollapsed

\* C14: once a cell is collapsed, every later step of the run (CollapseCell,
\* PropagateConstraints and its neighbour blocks) leaves its collapsed flag,
\* candidate set and FinalState as they are, and propagation never adds an
\* already-collapsed neighbour to the worklist
C14_CollapsedNeverChanges == [][CollapsedFrozenStep]_vars

\* a second CollapseCell has drawn on a two-cell grid while the first cell was
\* collapsed, and its propagation has processed that collapsed neighbour
C14_Witness ==
    /\ pc = "MainLoop"
    /\ Num(Grid) = 2
    /\ Len(RandomDraws) = 2
    /\ \A i \in DOMAIN Grid : Grid[i].bIsCollapsed


\* the direction opposite to d
Opposite(d) ==
    CASE d = "North" -> "South"
      [] d = "East"  -> "West"
      [] d = "South" -> "North"
      [] d = "West"  -> "East"

\* the edge label of tile t facing direction d
EdgeFacing(t, d) ==
    CASE d = "North" -> Tile(TileTypes, t).NorthEdge
      [] d = "East"  -> Tile(TileTypes, t).EastEdge
      [] d = "South" -> Tile(TileTypes, t).SouthEdge
      [] d = "West"  -> Tile(TileTypes, t).WestEdge

\* the neighbour of cell c in direction d on the row-major grid, -1 if the
\* grid ends there (no wrap-around across row ends)
NeighborIn(c, d) ==
    LET x == c % GridWidth
        y == c \div GridWidth
    IN  CASE d = "North" -> IF y > 0 THEN c - GridWidth ELSE -1
          [] d = "East"  -> IF x + 1 < GridWidth THEN c + 1 ELSE -1
          [] d = "South" -> IF y + 1 < GridHeight THEN c + GridWidth ELSE -1
          [] d = "West"  -> IF x > 0 THEN c - 1 ELSE -1

\* the tiles some candidate of cell c admits in direction d
AllowedIn(c, d) ==
    {t \in 0..NumTiles(TileTypes)-1 :
        \E s \in Range(Grid[c].PossibleStates) :
            AreEdgesCompatible(EdgeFacing(s, d), EdgeFacing(t, Opposite(d)))}

\* a step of PropagateConstraints modifies at most the uncollapsed neighbour
\* of the processed cell in the direction of the block taken, and a changed
\* candidate set is the old one filtered by the allowed set
IntersectionStep ==
    /\ pc \in {"PropagateConstraints", "QueueLoop"} => Grid' = Grid
    /\ pc \in NeighborPositions =>
          /\ DOMAIN Grid' = DOMAIN Grid
          /\ \A i \in DOMAIN Grid :
                IF i = NeighborIn(CurrentCellIndex, pc) /\ ~Grid[i].bIsCollapsed
                THEN Grid'[i].PossibleStates # Grid[i].PossibleStates =>
                        Grid'[i].PossibleStates =
                           SelectSeq(Grid[i].PossibleStates,
                                     LAMBDA t : t \in AllowedIn(CurrentCellIndex, pc))
                ELSE Grid'[i] = Grid[i]

\* C15: when a neighbour block of propagation changes the candidate set of the
\* in-bounds, uncollapsed neighbour n of the processed cell c in its direction
\* d, the new set is old(n) intersected with the tiles whose edge facing
\* opposite(d) is compatible with the edge facing d of some candidate of c;
\* every other cell is left as it is in that step
C15_NeighbourIntersection == [][IntersectionStep]_vars

\* the East block of the origin cell has just cut down its East neighbour on a
\* single-row grid
C15_Witness ==
    /\ pc = "South"
    /\ GridHeight = 1
    /\ CurrentCellIndex = CellToCollapse
    /\ PropagationQueue = <<CurrentCellIndex + 1>>
    /\ CurrentCellIndex + 1 \in DOMAIN Grid
    /\ Len(Grid[CurrentCellIndex + 1].PossibleStates) < NumTiles(TileTypes)


\* the neighbour of the processed cell in direction d exists and none of its
\* candidates is allowed
Contradiction(d) ==
    LET n == NeighborIn(CurrentCellIndex, d)
    IN  /\ n \in DOMAIN Grid
        /\ Range(Grid[n].PossibleStates) \cap AllowedIn(CurrentCellIndex, d) = {}

\* the position following a neighbour block
AfterBlock(d) ==
    CASE d = "North" -> "East"
      [] d = "East"  -> "South"
      [] d = "South" -> "West"
      [] d = "West"  -> "QueueLoop"

\* a neighbour block that meets a contradiction changes neither the neighbour
\* nor the worklist nor the logs, and goes on to the next block
ContradictionStep ==
    (pc \in NeighborPositions /\ Contradiction(pc)) =>
        /\ Grid' = Grid
        /\ PropagationQueue' = PropagationQueue
        /\ pc' = AfterBlock(pc)
        /\ Failed' = Failed
        /\ Warned' = Warned

\* C16: when no candidate of a neighbour is in the allowed set, propagation
\* leaves the neighbour's candidate set, collapsed flag and FinalState as they
\* are, does not add it to the worklist, and the run goes on to the next block
\* without recording a failure
C16_ContradictionIgnored == [][ContradictionStep]_vars

\* the South block has just met a contradiction on an uncollapsed neighbour
\* that still has candidates
C16_Witness ==
    /\ pc = "West"
    /\ Contradiction("South")
    /\ ~Grid[NeighborIn(CurrentCellIndex, "South")].bIsCollapsed
    /\ Len(Grid[NeighborIn(CurrentCellIndex, "South")].PossibleStates) > 0


\* the candidates of cell i that the block at the current position allows
Intersection(i) == Range(Grid[i].PossibleStates) \cap AllowedIn(CurrentCellIndex, pc)

\* the worklist after the step holds i: appended if it was absent, the same
\* worklist if it was pending
Queued(i) ==
    IF i \in Range(PropagationQueue)
    THEN PropagationQueue' = PropagationQueue
    ELSE PropagationQueue' = Append(PropagationQueue, i)

\* a neighbour block changes a cell only through a non-empty, strictly smaller
\* intersection, queues the cell it changed, and leaves alone a neighbour whose
\* intersection equals its candidate set
ShrinkOnlyStep ==
    pc \in NeighborPositions =>
        \A i \in DOMAIN Grid :
            /\ Grid'[i] # Grid[i] =>
                  /\ i = NeighborIn(CurrentCellIndex, pc)
                  /\ Intersection(i) # {}
                  /\ Intersection(i) # Range(Grid[i].PossibleStates)
                  /\ Queued(i)
            /\ (i = NeighborIn(CurrentCellIndex, pc)
                  /\ Intersection(i) = Range(Grid[i].PossibleStates)) => Grid'[i] = Grid[i]

\* C17 as stated: whenever propagation changes a neighbour's state the
\* intersection was non-empty and strictly smaller than the previous candidate
\* set and the neighbour is queued in the same step unless already pending; a
\* neighbour whose intersection equals its previous candidate set is left
\* entirely unchanged
C17_ChangeOnlyByShrink == [][ShrinkOnlyStep]_vars

\* as ShrinkOnlyStep, except for an uncollapsed neighbour whose single
\* candidate is allowed: it is collapsed to that candidate and not queued
ShrinkOrSingleStep ==
    pc \in NeighborPositions =>
        \A i \in DOMAIN Grid :
            LET Single == /\ ~Grid[i].bIsCollapsed
                          /\ Len(Grid[i].PossibleStates) = 1
                          /\ Intersection(i) = Range(Grid[i].PossibleStates)
            IN  /\ Grid'[i] # Grid[i] =>
                      /\ i = NeighborIn(CurrentCellIndex, pc)
                      /\ Intersection(i) # {}
                      /\ IF Single
                         THEN /\ Grid'[i] = [PossibleStates |-> Grid[i].PossibleStates,
                                             FinalState |-> Grid[i].PossibleStates[1],
                                             bIsCollapsed |-> TRUE]
                              /\ PropagationQueue' = PropagationQueue
                         ELSE /\ Intersection(i) # Range(Grid[i].PossibleStates)
                              /\ Queued(i)
                /\ (i = NeighborIn(CurrentCellIndex, pc)
                      /\ Intersection(i) = Range(Grid[i].PossibleStates)) =>
                      IF Single THEN Grid'[i] # Grid[i] ELSE Grid'[i] = Grid[i]

\* C17 amended: whenever propagation changes a neighbour's state the
\* intersection was non-empty, and either it was strictly smaller than the
\* previous candidate set and the neighbour is queued in the same step unless
\* already pending, or the neighbour was uncollapsed with exactly one
\* candidate, that candidate is allowed, and the neighbour is collapsed to it
\* with its candidate set unchanged and without being queued; any other
\* neighbour whose intersection equals its previous candidate set is left
\* entirely unchanged
C17_ChangeByShrinkOrSingle == [][ShrinkOrSingleStep]_vars

\* on a single-tile catalog the East block of the origin cell has collapsed
\* the East neighbour, whose only candidate was allowed, without queueing it
C17_Witness ==
    /\ pc = "South"
    /\ GridHeight = 1
    /\ NumTiles(TileTypes) = 1
    /\ CurrentCellIndex = CellToCollapse
    /\ CurrentCellIndex + 1 \in DOMAIN Grid
    /\ Grid[CurrentCellIndex + 1].bIsCollapsed
    /\ Len(RandomDraws) = 1
    /\ PropagationQueue = <<>>


\* C18: at every point of a PropagateConstraints call the worklist holds each
\* cell index at most once, and every index in it is a cell index in
\* 0 .. GridWidth*GridHeight-1
C18_WorklistUnique ==
    /\ Cardinality(Range(PropagationQueue)) = Len(PropagationQueue)
    /\ Range(PropagationQueue) \subseteq 0 .. GridWidth * GridHeight - 1

\* on the 2x2 grid cell 3 was queued when cell 1 narrowed it to two candidates
\* and, still pending, has been narrowed to one by the East block of cell 2
C18_Witness ==
    /\ GridWidth = 2
    /\ GridHeight = 2
    /\ pc = "South"
    /\ CurrentCellIndex = 2
    /\ CellToCollapse = 0
    /\ Len(RandomDraws) = 1
    /\ PropagationQueue = <<3>>
    /\ Grid[3].bIsCollapsed
    /\ Len(Grid[1].PossibleStates) = 2


\* every collapsed cell holds the one candidate FinalState, a tile index
CollapsedSingleton ==
    \A i \in DOMAIN Grid :
        Grid[i].bIsCollapsed =>
            /\ Grid[i].PossibleStates = <<Grid[i].FinalState>>
            /\ Grid[i].FinalState \in 0 .. NumTiles(TileTypes) - 1

\* a cell collapsed by a step of the main loop gets a FinalState that was one
\* of its candidates before the step
CollapseToCandidateStep ==
    pc \in RunPositions =>
        \A i \in DOMAIN Grid :
            (~Grid[i].bIsCollapsed /\ i \in DOMAIN Grid' /\ Grid'[i].bIsCollapsed) =>
                Grid'[i].FinalState \in Range(Grid[i].PossibleStates)

\* C19: in every reachable state of a run each collapsed cell's candidate set
\* is exactly {FinalState}, FinalState is a tile index in 0 .. tileCount-1, and
\* FinalState was a candidate of the cell immediately before it was collapsed
C19_CollapsedSingleton == []CollapsedSingleton /\ [][CollapseToCandidateStep]_vars

\* a finished grid in which some cell was collapsed by CollapseCell and another
\* by propagation, one of them to tile 1
C19_Witness ==
    /\ Finished
    /\ Num(Grid) >= 2
    /\ Len(RandomDraws) >= 1
    /\ Len(RandomDraws) < Num(Grid)
    /\ \A i \in DOMAIN Grid : Grid[i].bIsCollapsed
    /\ \E i \in DOMAIN Grid : Grid[i].FinalState = 1
    /\ NumTiles(TileTypes) = 2


\* no cell has an empty candidate set, and FindCellWithLowestEntropy finds a
\* cell unless every cell is collapsed
CandidatesNonEmpty ==
    /\ \A i \in DOMAIN Grid : Len(Grid[i].PossibleStates) > 0
    /\ FindCellWithLowestEntropy(Grid) = -1 => IsGridFullyCollapsed(Grid)

\* the initialization of a validated run gives every cell all tile indices,
\* uncollapsed, and there is at least one tile
InitializationStep ==
    (pc = "GenerateGrid" /\ pc' = "MainLoop") =>
        /\ NumTiles(TileTypes) >= 1
        /\ \A i \in DOMAIN Grid' :
              /\ Grid'[i].PossibleStates = [k \in 1..NumTiles(TileTypes) |-> k - 1]
              /\ ~Grid'[i].bIsCollapsed

\* the main loop, entered with an uncollapsed cell and iterations left, goes on
\* to CollapseCell: the break after FindCellWithLowestEntropy is not taken
NoBreakStep ==
    (pc = "MainLoop" /\ ~IsGridFullyCollapsed(Grid) /\ IterationCount < MaxIterations) =>
        (pc' = "CollapseCell" /\ CellToCollapse' \in DOMAIN Grid)

\* C20: in every run that passed validation no cell's candidate set is empty
\* in any reachable state (initialization gives each cell all tileCount >= 1
\* indices, uncollapsed, and no later step empties a set), so
\* FindCellWithLowestEntropy returns none only when every cell is collapsed and
\* the main loop never leaves through the break with an uncollapsed cell left
C20_NeverEmpty ==
    /\ []CandidatesNonEmpty
    /\ [][InitializationStep]_vars
    /\ [][NoBreakStep]_vars

\* the main loop of a run that met a contradiction has been left, before the
\* iteration cap, with every cell collapsed
C20_Witness ==
    /\ pc = "AfterLoop"
    /\ Num(Grid) >= 2
    /\ IterationCount < MaxIterations
    /\ IsGridFullyCollapsed(Grid)
    /\ \E i \in DOMAIN Grid :
          /\ IndexToX(i) + 1 < GridWidth
          /\ ~EastWestCompatible(Grid, i)


\* CollapseCell in the main loop is called on an uncollapsed cell with a
\* positive candidate count and collapses it; no other step of the main loop
\* lowers the number of collapsed cells
IterationCollapsesStep ==
    /\ pc = "CollapseCell" =>
          /\ CellToCollapse \in DOMAIN Grid
          /\ ~Grid[CellToCollapse].bIsCollapsed
          /\ Len(Grid[CellToCollapse].PossibleStates) > 0
          /\ Grid'[CellToCollapse].bIsCollapsed
          /\ CollapsedCount(Grid') = CollapsedCount(Grid) + 1
    /\ pc \in RunPositions => CollapsedCount(Grid') >= CollapsedCount(Grid)
    /\ IterationCount' # IterationCount =>
          \/ pc = "GenerateGrid" /\ IterationCount' = 0
          \/ /\ pc \in {"PropagateConstraints", "QueueLoop"}
             /\ IterationCount' = IterationCount + 1
             /\ IterationCount' <= CollapsedCount(Grid')

\* the iterations completed never exceed the collapsed cells nor the cells of
\* the grid, the cap is not reached, and a finished run has made at least one
\* iteration, exactly one on the 1x1 grid
IterationCountBounds ==
    /\ pc \in RunPositions =>
          /\ IterationCount <= CollapsedCount(Grid)
          /\ IterationCount <= GridWidth * GridHeight
          /\ IterationCount < MaxIterations
    /\ ~Warned
    /\ Finished =>
          /\ IterationCount >= 1
          /\ IterationCount <= GridWidth * GridHeight
          /\ (GridWidth = 1 /\ GridHeight = 1) => IterationCount = 1

\* C21: in a validated run on a grid of positive width and height every
\* main-loop iteration strictly increases the number of collapsed cells (the
\* selected cell is uncollapsed with a positive candidate count and
\* CollapseCell collapses it), so the iteration count at termination is at
\* least 1 and at most width*height, exactly 1 on the 1x1 grid, and the cap
\* width*height*10 is never reached
C21_IterationsBounded == []IterationCountBounds /\ [][IterationCollapsesStep]_vars

\* a finished run on a grid of several cells that needed one iteration per
\* cell
C21_Witness ==
    /\ Finished
    /\ Num(Grid) >= 3
    /\ IterationCount = GridWidth * GridHeight
    /\ NumTiles(TileTypes) = 2

====
